---- MODULE Spec2Model ----
(***************************************************************************)
(* Model of the study-scheduler server, src/public/index.js lines 39-216:  *)
(* the express routes, the verifyToken middleware, the pg connection pool  *)
(* and the PostgreSQL tables users, schedule_items and user_streaks the    *)
(* routes read and write.                                                  *)
(*                                                                         *)
(* One action is one turn of the event loop: a database statement (or the  *)
(* generator call) completes and the handler's continuation runs up to its *)
(* next await.  A statement may succeed or fail; the database runs plain   *)
(* BEGIN transactions, that is PostgreSQL's READ COMMITTED level: a        *)
(* statement sees the rows committed when it starts plus its own           *)
(* transaction's writes, and a DELETE or UPDATE waits for a row another    *)
(* open transaction has written.                                           *)
(***************************************************************************)
EXTENDS Integers, Sequences, FiniteSets, TLC

(* ------------------------------ bounds --------------------------------- *)

\* number of HTTP requests of one run
NReq == 2
\* the clock runs 0..MaxTime
MaxTime == 2
\* clock ticks in one day
TicksPerDay == 2
\* number of requests of a run of the session routes under the clock
NSession == 1
\* the schedule rows a dashboard run starts with, beside the initial one
MaxRows == 2

Reqs == 1..NReq

(* --------------------------- session tokens ---------------------------- *)

JWT_SECRET == "JWT_SECRET"

\* expiresIn: '1d'
ExpiresIn == 1 * TicksPerDay

NoToken == [id |-> 0, name |-> "", exp |-> 0, key |-> "none"]
NoUser == [id |-> 0, name |-> ""]

\* jwt.sign({ id, name }, process.env.JWT_SECRET, { expiresIn: '1d' })
jwtSign(id, name, t) == [id |-> id, name |-> name, exp |-> t + ExpiresIn, key |-> JWT_SECRET]

\* jwt.verify(token, process.env.JWT_SECRET, cb): err unless the signature was
\* made with the secret and the token is not past its exp
\* (a verifier that checks the signature alone)
jwtVerifyOKExpiryIgnored(token, t) == token.key = JWT_SECRET
jwtVerifyOK(token, t) == token.key = JWT_SECRET /\ t < token.exp

\* the outcome of the verifyToken middleware for a request arriving at time t
verifyToken(token, t) ==
    IF token = NoToken
    THEN [next |-> FALSE, user |-> NoUser, clear |-> FALSE]
    ELSE IF ~jwtVerifyOK(token, t)
         THEN [next |-> FALSE, user |-> NoUser, clear |-> TRUE]
         ELSE [next |-> TRUE, user |-> [id |-> token.id, name |-> token.name],
               clear |-> FALSE]

(* ------------------------ the generator's response --------------------- *)

\* The response text is a sequence of tokens.  "E1", "E2" are JSON objects
\* with the four keys, "{}" an object with none of them, "str:" the empty
\* JSON string and "str:a" the JSON string a; "fence:json" and "fence" are
\* the markdown code-fence markers with and without the json tag.
E1 == [kind |-> "obj", dayOfWeek |-> "Monday", startTime |-> "09:00",
       endTime |-> "11:00", subject |-> "Math"]
E2 == [kind |-> "obj", dayOfWeek |-> "Tuesday", startTime |-> "14:00",
       endTime |-> "15:00", subject |-> "Physics"]
EmptyObj == [kind |-> "obj", dayOfWeek |-> "NULL", startTime |-> "NULL",
             endTime |-> "NULL", subject |-> "NULL"]
\* a one-character string: its properties dayOfWeek, ... are undefined
CharItem == [kind |-> "char", dayOfWeek |-> "NULL", startTime |-> "NULL",
             endTime |-> "NULL", subject |-> "NULL"]
\* null: reading item.dayOfWeek throws TypeError
NullItem == [kind |-> "null", dayOfWeek |-> "NULL", startTime |-> "NULL",
             endTime |-> "NULL", subject |-> "NULL"]

Responses ==
    { <<"[", "E1", "]">>,
      <<"fence:json", " ", "[", "E2", ",", "E1", "]", " ", "fence">>,
      <<"fence", "[", "E1", ",", "E1", "]", "fence">>,
      <<"[", "]">>,
      <<"[", "E1", ",", "null", "]">>,
      <<"Sure", "[", "E1", "]">>,
      <<"{}">>,
      <<"5">>,
      <<"null">>,
      <<"str:">>,
      <<"fence:json", "str:a", "fence">> }

\* the well-formed arrays among them that two racing requests are given
ArrayResponses ==
    { <<"[", "E1", "]">>,
      <<"fence:json", " ", "[", "E2", ",", "E1", "]", " ", "fence">>,
      <<"[", "]">> }

RECURSIVE Filter(_, _)
Filter(s, drop) ==
    IF s = <<>> THEN <<>>
    ELSE IF Head(s) \in drop THEN Filter(Tail(s), drop)
         ELSE <<Head(s)>> \o Filter(Tail(s), drop)

\* result.response.text() with both fence markers replaced by nothing and
\* then trimmed; JSON.parse skips the white space left between tokens
StripFences(text) == Filter(Filter(Filter(text, {"fence:json"}), {"fence"}), {" "})

Scalars == {"E1", "E2", "{}", "5", "null", "str:", "str:a"}

\* the JavaScript value of a scalar token
ScalarValue(tok) ==
    CASE tok = "E1" -> [type |-> "object", elems |-> <<E1>>]
      [] tok = "E2" -> [type |-> "object", elems |-> <<E2>>]
      [] tok = "{}" -> [type |-> "object", elems |-> <<EmptyObj>>]
      [] tok = "5" -> [type |-> "number", elems |-> <<>>]
      [] tok = "null" -> [type |-> "null", elems |-> <<>>]
      [] tok = "str:" -> [type |-> "string", elems |-> <<>>]
      [] tok = "str:a" -> [type |-> "string", elems |-> <<CharItem>>]

\* an array element as the for-of loop sees it
ElementItem(tok) ==
    CASE tok = "null" -> NullItem
      [] tok \in {"E1", "E2", "{}"} -> ScalarValue(tok).elems[1]
      [] OTHER -> CharItem

\* the elements of "v , v , v" (the text between the brackets), or failure
RECURSIVE ParseElements(_)
ParseElements(s) ==
    IF s = <<>> \/ Head(s) \notin Scalars THEN [ok |-> FALSE, elems |-> <<>>]
    ELSE IF Len(s) = 1 THEN [ok |-> TRUE, elems |-> <<ElementItem(s[1])>>]
    ELSE IF s[2] # "," THEN [ok |-> FALSE, elems |-> <<>>]
    ELSE LET rest == ParseElements(Tail(Tail(s)))
         IN  [ok |-> rest.ok,
              elems |-> IF rest.ok THEN <<ElementItem(s[1])>> \o rest.elems ELSE <<>>]

SyntaxError == [ok |-> FALSE, type |-> "undefined", elems |-> <<>>]

\* JSON.parse(jsonResponse): ok = FALSE is a SyntaxError
JSONparse(s) ==
    IF s = <<>> THEN SyntaxError
    ELSE IF Len(s) = 1 /\ s[1] \in Scalars
         THEN [ok |-> TRUE, type |-> ScalarValue(s[1]).type,
               elems |-> ScalarValue(s[1]).elems]
    ELSE IF Len(s) >= 2 /\ s[1] = "[" /\ s[Len(s)] = "]"
         THEN IF Len(s) = 2 THEN [ok |-> TRUE, type |-> "array", elems |-> <<>>]
              ELSE LET inner == ParseElements(SubSeq(s, 2, Len(s) - 1))
                   IN  IF inner.ok
                       THEN [ok |-> TRUE, type |-> "array", elems |-> inner.elems]
                       ELSE SyntaxError
    ELSE SyntaxError

\* scheduleItems.length throws TypeError on null (and on nothing else)
LengthThrows(v) == v.type = "null"

\* for (const item of scheduleItems) throws TypeError unless the value is
\* iterable: arrays and strings are, numbers and plain objects are not
Iterable(v) == v.type \in {"array", "string"}


(* ------------------------------- state --------------------------------- *)

VARIABLES
    now,             \* the clock jwt.verify reads
    users,           \* table users: the row of id i is users[i]
    schedule_items,  \* table schedule_items: the row versions, oldest first
    user_streaks,    \* table user_streaks
    tx,              \* the database session of the client a request checked out
    held,            \* the requests that hold a client of the pool
    released,        \* how often each request called client.release()
    req,             \* the requests: route, inputs, locals, position, response
    jar,             \* the session tokens the browsers hold
    commits          \* the requests whose COMMIT took effect, in commit order

vars == <<now, users, schedule_items, user_streaks, tx, held, released, req, jar, commits>>

NULL == -1

\* what the body-parser hands over: every route reads its own fields
DailyTimes == {"2", "4"}
\* the float PostgreSQL stores for the text of dailytime
pgFloat(s) == CASE s = "2" -> 2 [] s = "4" -> 4 [] OTHER -> NULL

\* password hashes: bcrypt.hash(password, 10) and bcrypt.compare
bcryptHash(password) == <<"bcrypt", 10, password>>
\* (a comparison that accepts every password)
bcryptCompareAny(password, hash) == TRUE
bcryptCompare(password, hash) == hash = bcryptHash(password)

UserIds == 1..Len(users)

NoBody == [dailytime |-> "", user_id |-> 0, name |-> "", email |-> "", password |-> ""]
NoValue == [type |-> "undefined", elems |-> <<>>]

FreshReq ==
    [kind |-> "none", pc |-> "idle", at |-> 0, cookie |-> NoToken, user |-> NoUser,
     body |-> NoBody, text |-> <<>>, sched |-> NoValue, idx |-> 0,
     gen |-> "none", failed |-> "none", rollbackFailed |-> FALSE,
     resp |-> <<>>, cleared |-> FALSE, setCookie |-> NoToken, log |-> <<>>,
     got |-> {}, userRows |-> <<>>, scheduleRows |-> <<>>, streakRows |-> <<>>,
     view |-> <<>>, nusers |-> 0, newUser |-> 0]

NoTx == [status |-> "idle", focusFor |-> 0, focus |-> NULL]

\* the tokens issued before the run starts: a live one for each user, one of
\* user 1 that is past its expiry, and one of user 2 signed with another key
InitTokens ==
    { jwtSign(1, "ann", 0), jwtSign(2, "bob", 0),
      [id |-> 1, name |-> "ann", exp |-> 0, key |-> JWT_SECRET],
      [id |-> 2, name |-> "bob", exp |-> ExpiresIn, key |-> "forged"] }

Row(uid, item, xmin) ==
    [user_id |-> uid, dayOfWeek |-> item.dayOfWeek, startTime |-> item.startTime,
     endTime |-> item.endTime, subject |-> item.subject,
     xmin |-> xmin, xmax |-> 0, want |-> {}]

\* the database as some earlier requests left it: two users, a schedule of
\* user 1 from an earlier generation, and a streak row for user 1 only
InitUsers ==
    << [name |-> "ann", email |-> "ann@x", password |-> bcryptHash("pw1"),
        daily_focus_hours |-> 4],
       [name |-> "bob", email |-> "bob@x", password |-> bcryptHash("pw2"),
        daily_focus_hours |-> NULL] >>
InitItems == << Row(1, E2, 0) >>

Init ==
    /\ now = 0
    /\ users = InitUsers
    /\ schedule_items = InitItems
    /\ user_streaks = { [user_id |-> 1, streak_count |-> 3, longest_streak |-> 5] }
    /\ tx = [r \in Reqs |-> NoTx]
    /\ held = {}
    /\ released = [r \in Reqs |-> 0]
    /\ req = [r \in Reqs |-> FreshReq]
    /\ jar = InitTokens
    /\ commits = <<>>

(* ------------------------- the database engine ------------------------- *)

RECURSIVE SelectRows(_, _)
\* the rows of seq s whose index is in set keep, in order
SelectRows(s, keep) ==
    IF s = <<>> THEN <<>>
    ELSE LET n == Len(s)
             front == SelectRows(SubSeq(s, 1, n - 1), keep)
         IN  IF n \in keep THEN Append(front, s[n]) ELSE front

\* row versions a statement of session c sees: committed ones and its own
\* transaction's inserts, without the ones its own transaction deleted
Sees(c, row) == row.xmin \in {0, c} /\ row.xmax # c

\* row versions any other session sees: the committed ones
Committed(row) == row.xmin = 0

\* SELECT ... FROM schedule_items WHERE user_id = uid, by a pooled connection
CommittedItems(uid) ==
    SelectRows(schedule_items,
               {i \in DOMAIN schedule_items :
                   Committed(schedule_items[i]) /\ schedule_items[i].user_id = uid})

\* the four columns of a row
Entry(row) == [dayOfWeek |-> row.dayOfWeek, startTime |-> row.startTime,
               endTime |-> row.endTime, subject |-> row.subject]
Entries(rows) == [i \in DOMAIN rows |-> Entry(rows[i])]

InTx(c) == tx[c].status = "open"

\* the rows DELETE FROM schedule_items WHERE user_id = uid of session c finds
DeleteTargets(c, uid) ==
    {i \in DOMAIN schedule_items :
        Sees(c, schedule_items[i]) /\ schedule_items[i].user_id = uid}

\* a row is locked against c while another open transaction has deleted it
LockedFor(c, row) == row.xmax \notin {0, c}

\* the table after session c has deleted the rows of index set del
\* (a DELETE that removes nothing)
DbDeleteKeepsRows(c, del) == schedule_items
DbDelete(c, del) ==
    IF InTx(c)
    THEN [i \in DOMAIN schedule_items |->
            IF i \in del
            THEN [schedule_items[i] EXCEPT !.xmax = c, !.want = @ \ {c}]
            ELSE schedule_items[i]]
    ELSE SelectRows(schedule_items, DOMAIN schedule_items \ del)

\* the table after session c has inserted item for user uid
DbInsert(c, uid, item) ==
    Append(schedule_items, Row(uid, item, IF InTx(c) THEN c ELSE 0))

\* the table after the transaction of session c has committed
DbCommit(c) ==
    LET keep == {i \in DOMAIN schedule_items : schedule_items[i].xmax # c}
        kept == SelectRows(schedule_items, keep)
    IN  [i \in DOMAIN kept |-> IF kept[i].xmin = c THEN [kept[i] EXCEPT !.xmin = 0]
                                ELSE kept[i]]

\* the table after the transaction of session c has been rolled back
DbRollback(c) ==
    LET keep == {i \in DOMAIN schedule_items : schedule_items[i].xmin # c}
        kept == SelectRows(schedule_items, keep)
    IN  [i \in DOMAIN kept |-> IF kept[i].xmax = c THEN [kept[i] EXCEPT !.xmax = 0]
                                ELSE kept[i]]

\* users after UPDATE users SET daily_focus_hours = v WHERE id = uid commits
SetFocus(uid, v) ==
    [i \in DOMAIN users |->
        IF i = uid THEN [users[i] EXCEPT !.daily_focus_hours = v] ELSE users[i]]

\* the users row uid is locked against c while another open transaction
\* has updated it
UserLockedFor(c, uid) ==
    \E d \in Reqs \ {c} : InTx(d) /\ tx[d].focusFor = uid /\ uid \in UserIds


(* ----------------------------- responses ------------------------------- *)

RedirectLogin == "302 /"
RedirectDashboard == "302 /dashboard"
RedirectForm == "302 /form"
RenderForm == "200 form.ejs"
RenderDashboard == "200 index.ejs"
ScheduleError == "500 An error occurred while generating the schedule."
DashboardError == "500 Error loading dashboard."
DefaultError == "500 express default error handler"

\* A rejection that leaves an async handler: express 4 never answers the
\* request, express 5 passes the error to its default error handler.  The
\* package manifest is not part of the sources, so both can happen.
Escaped == { <<>>, <<DefaultError>> }

Step(q, stmt, pc) == [q EXCEPT !.log = Append(@, stmt), !.pc = pc]

(* -------------- verifyToken and the arrival of a request --------------- *)

SessionRoutes == {"POST /form", "GET /form", "GET /dashboard"}

\* the bodies of POST /form: its dailytime, and a user_id field the form does
\* not have but a client is free to send
FormBodies ==
    { [NoBody EXCEPT !.dailytime = "2", !.user_id = 2],
      [NoBody EXCEPT !.dailytime = "4", !.user_id = 1] }

BodiesOf(route) == IF route = "POST /form" THEN FormBodies ELSE {NoBody}

\* where the handler of a session route stands after its synchronous start
Started(q, route) ==
    CASE route = "POST /form" -> [q EXCEPT !.pc = "connect"]
      [] route = "GET /form" -> [q EXCEPT !.pc = "done", !.resp = <<RenderForm>>]
      [] route = "GET /dashboard" -> [q EXCEPT !.pc = "queries"]

\* requests arrive in the order of their numbers
MayArrive(r) == req[r].pc = "idle" /\ \A s \in 1..(r - 1) : req[s].pc # "idle"

\* a request for a session route arrives: verifyToken, then the handler
Arrive(r, route) ==
    /\ MayArrive(r)
    /\ \E token \in jar \cup {NoToken}, b \in BodiesOf(route) :
          LET v == verifyToken(token, now)
              q == [FreshReq EXCEPT !.kind = route, !.at = now, !.cookie = token,
                                    !.body = b]
          IN  req' = [req EXCEPT ![r] =
                  IF v.next
                  THEN Started([q EXCEPT !.user = v.user], route)
                  ELSE [q EXCEPT !.pc = "done", !.resp = <<RedirectLogin>>,
                                 !.cleared = v.clear]]
    /\ UNCHANGED <<now, users, schedule_items, user_streaks, tx, held, released,
                   jar, commits>>

Posts == {r \in Reqs : req[r].kind = "POST /form"}

PostForm(r) == Arrive(r, "POST /form")
\* the first request of the run is a POST /form
PostFormFirst == PostForm(1)
GetForm(r) == Arrive(r, "GET /form")
GetDashboard(r) == Arrive(r, "GET /dashboard")

Tick ==
    /\ now < MaxTime
    /\ now' = now + 1
    /\ UNCHANGED <<users, schedule_items, user_streaks, tx, held, released, req,
                   jar, commits>>

(* ----------------------------- POST /form ------------------------------ *)

\* the user id the three statements are given: req.user.id
\* (the id taken from the body instead)
FormUserIdFromBody(q) == q.body.user_id
FormUserId(q) == q.user.id

\* client.query('BEGIN')
\* (no BEGIN: every statement commits by itself)
TxAfterBeginOmitted(t) == t
TxAfterBegin(t) == [t EXCEPT !.status = "open"]

\* where the for-of loop goes once idx items are inserted
\* (a loop that is left for the UPDATE with its items still to insert)
LoopLeftEarly(q) == IF ~Iterable(q.sched) THEN "rollback" ELSE "update"
Loop(q) ==
    IF ~Iterable(q.sched) THEN "rollback"
    ELSE IF q.idx < Len(q.sched.elems)
         THEN IF q.sched.elems[q.idx + 1].kind = "null" THEN "rollback" ELSE "insert"
         ELSE "update"

\* client.release()
Release(r) ==
    /\ held' = held \ {r}
    /\ released' = [released EXCEPT ![r] = @ + 1]

\* the finally block runs whether or not the handler has thrown
\* (a release at the end of try and catch instead)
FinallySkippedOnThrow(r, thrown) ==
    IF thrown THEN UNCHANGED <<held, released>> ELSE Release(r)
Finally(r, thrown) == Release(r)

\* const client = await db.connect()
FormConnect(r) ==
    /\ req[r].kind = "POST /form" /\ req[r].pc = "connect"
    /\ \/ /\ req' = [req EXCEPT ![r] = Step(@, "connect", "generate")]
          /\ held' = held \cup {r}
       \/ /\ \E out \in Escaped :
                req' = [req EXCEPT ![r] = [Step(@, "connect", "done") EXCEPT
                                              !.resp = out, !.failed = "connect"]]
          /\ held' = held
    /\ UNCHANGED <<now, users, schedule_items, user_streaks, tx, released, jar, commits>>

\* the scheduleItems of a response text, or a throw (ok = FALSE)
Parsed(text) ==
    LET v == JSONparse(StripFences(text))
    IN  IF v.ok /\ LengthThrows(v) THEN [v EXCEPT !.ok = FALSE] ELSE v

\* generateContent(prompt) settles with one of texts or fails; the text is
\* stripped and parsed
Generate(r, texts) ==
    /\ req[r].kind = "POST /form" /\ req[r].pc = "generate"
    /\ \/ \E text \in texts :
             LET v == Parsed(text)
                 q == [req[r] EXCEPT !.text = text, !.gen = "text"]
             IN  req' = [req EXCEPT ![r] =
                     IF v.ok
                     THEN Step([q EXCEPT !.sched = [type |-> v.type, elems |-> v.elems]],
                               "generate", "begin")
                     ELSE Step(q, "generate", "rollback")]
       \/ req' = [req EXCEPT ![r] = Step([@ EXCEPT !.gen = "error"], "generate", "rollback")]
    /\ UNCHANGED <<now, users, schedule_items, user_streaks, tx, held, released,
                   jar, commits>>

FormGenerate(r) == Generate(r, Responses)
FormGenerateArray(r) == Generate(r, ArrayResponses)
FormGenerateOne(r) == Generate(r, {<<"fence:json", "[", "E1", "]", "fence">>})

\* await client.query('BEGIN')
FormBegin(r) ==
    /\ req[r].kind = "POST /form" /\ req[r].pc = "begin"
    /\ \/ /\ tx' = [tx EXCEPT ![r] = TxAfterBegin(@)]
          /\ req' = [req EXCEPT ![r] = Step(@, "BEGIN", "delete")]
       \/ /\ tx' = tx
          /\ req' = [req EXCEPT ![r] = Step([@ EXCEPT !.failed = "BEGIN"], "BEGIN", "rollback")]
    /\ UNCHANGED <<now, users, schedule_items, user_streaks, held, released, jar, commits>>

\* await client.query('DELETE FROM schedule_items WHERE user_id = $1', ...)
FormDelete(r) ==
    /\ req[r].kind = "POST /form" /\ req[r].pc = "delete"
    /\ LET found == DeleteTargets(r, FormUserId(req[r]))
           blocked == \E i \in found : LockedFor(r, schedule_items[i])
       IN  \/ /\ ~blocked
              /\ schedule_items' = DbDelete(r, found)
              /\ req' = [req EXCEPT ![r] = Step(@, "DELETE", Loop(@))]
           \/ /\ blocked
              /\ schedule_items' = [i \in DOMAIN schedule_items |->
                     IF i \in found
                     THEN [schedule_items[i] EXCEPT !.want = @ \cup {r}]
                     ELSE schedule_items[i]]
              /\ req' = [req EXCEPT ![r] = Step(@, "DELETE", "deleteWait")]
           \/ /\ schedule_items' = schedule_items
              /\ req' = [req EXCEPT ![r] =
                            Step([@ EXCEPT !.failed = "DELETE"], "DELETE", "rollback")]
    /\ UNCHANGED <<now, users, user_streaks, tx, held, released, jar, commits>>

\* the DELETE that waited for a row lock goes on when the lock is gone: it
\* deletes the rows it found that are still there
FormDeleteResume(r) ==
    /\ req[r].kind = "POST /form" /\ req[r].pc = "deleteWait"
    /\ LET found == {i \in DOMAIN schedule_items : r \in schedule_items[i].want}
       IN  \/ /\ \A i \in found : ~LockedFor(r, schedule_items[i])
              /\ schedule_items' = DbDelete(r, found)
              /\ req' = [req EXCEPT ![r] = [req[r] EXCEPT !.pc = Loop(req[r])]]
           \/ /\ schedule_items' = [i \in DOMAIN schedule_items |->
                     [schedule_items[i] EXCEPT !.want = @ \ {r}]]
              /\ req' = [req EXCEPT ![r] = [@ EXCEPT !.failed = "DELETE", !.pc = "rollback"]]
    /\ UNCHANGED <<now, users, user_streaks, tx, held, released, jar, commits>>

\* await client.query('INSERT INTO schedule_items ...', [item..., req.user.id])
FormInsert(r) ==
    /\ req[r].kind = "POST /form" /\ req[r].pc = "insert"
    /\ \/ /\ schedule_items' =
                DbInsert(r, FormUserId(req[r]), req[r].sched.elems[req[r].idx + 1])
          /\ req' = [req EXCEPT ![r] =
                        LET q == [@ EXCEPT !.idx = @ + 1] IN Step(q, "INSERT", Loop(q))]
       \/ /\ schedule_items' = schedule_items
          /\ req' = [req EXCEPT ![r] =
                        Step([@ EXCEPT !.failed = "INSERT"], "INSERT", "rollback")]
    /\ UNCHANGED <<now, users, user_streaks, tx, held, released, jar, commits>>

\* await client.query('UPDATE users SET daily_focus_hours = $1 WHERE id = $2', ...)
FormUpdate(r) ==
    /\ req[r].kind = "POST /form" /\ req[r].pc = "update"
    /\ LET uid == FormUserId(req[r])
           v == pgFloat(req[r].body.dailytime)
       IN  \/ /\ ~UserLockedFor(r, uid)
              /\ IF InTx(r)
                 THEN /\ tx' = [tx EXCEPT ![r] = [@ EXCEPT !.focusFor = uid, !.focus = v]]
                      /\ users' = users
                 ELSE /\ tx' = tx
                      /\ users' = SetFocus(uid, v)
              /\ req' = [req EXCEPT ![r] = Step(@, "UPDATE", "commit")]
           \/ /\ tx' = tx /\ users' = users
              /\ req' = [req EXCEPT ![r] =
                            Step([@ EXCEPT !.failed = "UPDATE"], "UPDATE", "rollback")]
    /\ UNCHANGED <<now, schedule_items, user_streaks, held, released, jar, commits>>

\* await client.query('COMMIT'); res.redirect('/dashboard'); finally release
FormCommit(r) ==
    /\ req[r].kind = "POST /form" /\ req[r].pc = "commit"
    /\ \/ /\ schedule_items' = IF InTx(r) THEN DbCommit(r) ELSE schedule_items
          /\ users' = IF InTx(r) /\ tx[r].focusFor # 0
                      THEN SetFocus(tx[r].focusFor, tx[r].focus) ELSE users
          /\ tx' = [tx EXCEPT ![r] = NoTx]
          /\ commits' = Append(commits, r)
          /\ req' = [req EXCEPT ![r] =
                        [Step(@, "COMMIT", "done") EXCEPT !.resp = Append(@, RedirectDashboard)]]
          /\ Finally(r, FALSE)
       \/ /\ req' = [req EXCEPT ![r] =
                        Step([@ EXCEPT !.failed = "COMMIT"], "COMMIT", "rollback")]
          /\ UNCHANGED <<schedule_items, users, tx, commits, held, released>>
    /\ UNCHANGED <<now, user_streaks, jar>>

\* catch: await client.query('ROLLBACK'); res.status(500).send(...); finally
\* release.  A ROLLBACK fails when the connection is lost, and the server
\* then aborts the open transaction itself; the rejection leaves the handler.
FormRollback(r) ==
    /\ req[r].kind = "POST /form" /\ req[r].pc = "rollback"
    /\ schedule_items' = IF InTx(r) THEN DbRollback(r) ELSE schedule_items
    /\ tx' = [tx EXCEPT ![r] = NoTx]
    /\ \/ /\ req' = [req EXCEPT ![r] =
                     [Step(@, "ROLLBACK", "done") EXCEPT !.resp = Append(@, ScheduleError)]]
          /\ Finally(r, FALSE)
       \/ /\ \E out \in Escaped :
                req' = [req EXCEPT ![r] =
                           [Step(@, "ROLLBACK", "done") EXCEPT !.resp = @ \o out,
                                                               !.rollbackFailed = TRUE]]
          /\ Finally(r, TRUE)
    /\ UNCHANGED <<now, users, user_streaks, jar, commits>>


(* ---------------------------- GET /dashboard --------------------------- *)

\* CASE day_of_week WHEN 'Monday' THEN 1 ... WHEN 'Saturday' THEN 6 ELSE 7 END
\* (ORDER BY day_of_week: the names in alphabetical order)
DayRankAlphabetical(d) ==
    CASE d = "Friday" -> 1 [] d = "Monday" -> 2 [] d = "Saturday" -> 3
      [] d = "Sunday" -> 4 [] d = "Thursday" -> 5 [] d = "Tuesday" -> 6
      [] OTHER -> 7
DayRank(d) ==
    CASE d = "Monday" -> 1 [] d = "Tuesday" -> 2 [] d = "Wednesday" -> 3
      [] d = "Thursday" -> 4 [] d = "Friday" -> 5 [] d = "Saturday" -> 6
      [] OTHER -> 7

\* start_time as minutes of the day; NULL sorts after every time
TimeRank(t) ==
    CASE t = "09:00" -> 9 * 60 [] t = "11:00" -> 11 * 60 [] t = "14:00" -> 14 * 60
      [] t = "15:00" -> 15 * 60 [] OTHER -> 24 * 60

Before(a, b) ==
    \/ DayRank(a.dayOfWeek) < DayRank(b.dayOfWeek)
    \/ /\ DayRank(a.dayOfWeek) = DayRank(b.dayOfWeek)
       /\ TimeRank(a.startTime) < TimeRank(b.startTime)

\* row x put into the ordered sequence s, after the rows that do not sort
\* after it
RECURSIVE InsertOrdered(_, _)
InsertOrdered(s, x) ==
    IF s = <<>> THEN <<x>>
    ELSE IF Before(x, Head(s)) THEN <<x>> \o s
         ELSE <<Head(s)>> \o InsertOrdered(Tail(s), x)

\* ORDER BY CASE day_of_week ... END, start_time
RECURSIVE OrderBy(_)
OrderBy(s) ==
    IF s = <<>> THEN <<>>
    ELSE InsertOrdered(OrderBy(SubSeq(s, 1, Len(s) - 1)), s[Len(s)])

\* the three SELECTs, each run by a pooled connection of its own
\* (the users query without its WHERE clause: rows[0] is the first user)
SelectUserFirstRow(uid) == <<users[1]>>
SelectUser(uid) == IF uid \in UserIds THEN <<users[uid]>> ELSE <<>>
SelectSchedule(uid) == OrderBy(Entries(CommittedItems(uid)))
SelectStreak(uid) ==
    IF \E k \in user_streaks : k.user_id = uid
    THEN <<CHOOSE k \in user_streaks : k.user_id = uid>>
    ELSE <<>>

DashQueries == {"user", "schedule", "streak"}

\* what res.render("index.ejs", ...) is given
ReadModel(q) ==
    LET userData == q.userRows[1]
        streakData == IF q.streakRows # <<>> THEN q.streakRows[1]
                      ELSE [user_id |-> 0, streak_count |-> 0, longest_streak |-> 0]
    IN  [name |-> userData.name,
         scheduleItems |-> q.scheduleRows,
         focusedTime |-> IF userData.daily_focus_hours \in {NULL, 0} THEN NULL
                         ELSE userData.daily_focus_hours,
         streak_count |-> streakData.streak_count,
         longest_streak |-> streakData.longest_streak]

\* after Promise.all has all three results
DashFinish(q) ==
    IF q.got # DashQueries THEN q
    ELSE IF q.userRows = <<>>
         THEN [q EXCEPT !.pc = "done", !.resp = <<RedirectLogin>>]
         ELSE [q EXCEPT !.pc = "done", !.resp = <<RenderDashboard>>,
                        !.view = <<ReadModel(q)>>]

\* one of the three queries settles; a failure rejects Promise.all
DashQuery(r, name) ==
    /\ req[r].kind = "GET /dashboard" /\ req[r].pc = "queries"
    /\ name \notin req[r].got
    /\ LET uid == req[r].user.id
           q == [req[r] EXCEPT !.got = @ \cup {name}]
       IN  \/ req' = [req EXCEPT ![r] = DashFinish(
                         CASE name = "user" -> [q EXCEPT !.userRows = SelectUser(uid)]
                           [] name = "schedule" ->
                                  [q EXCEPT !.scheduleRows = SelectSchedule(uid)]
                           [] name = "streak" ->
                                  [q EXCEPT !.streakRows = SelectStreak(uid)])]
           \/ req' = [req EXCEPT ![r] =
                         [req[r] EXCEPT !.pc = "done", !.failed = name,
                                        !.resp = <<DashboardError>>]]
    /\ UNCHANGED <<now, users, schedule_items, user_streaks, tx, held, released,
                   jar, commits>>

DashUser(r) == DashQuery(r, "user")
DashSchedule(r) == DashQuery(r, "schedule")
DashStreak(r) == DashQuery(r, "streak")

(* ---------------------- POST /register, POST /login -------------------- *)

AuthRequired == "200 auth.ejs All fields are required."
AuthLoginRequired == "200 auth.ejs Email and password are required."
AuthExists == "200 auth.ejs User with this email already exists."
AuthNotFound == "200 auth.ejs User not found."
AuthIncorrect == "200 auth.ejs Incorrect password."
AuthInternal == "200 auth.ejs An internal server error occurred."

RegisterBodies ==
    { [NoBody EXCEPT !.name = "cy", !.email = e, !.password = "pw3"] :
          e \in {"ann@x", "cy@x", ""} }

LoginBodies ==
    { [NoBody EXCEPT !.email = e, !.password = pw] :
          e \in {"ann@x", "cy@x"}, pw \in {"pw1", "pw3", ""} }

\* SELECT * FROM users WHERE email = $1: the ids of the rows
SelectByEmail(email) == {i \in UserIds : users[i].email = email}

\* if (check.rows.length): the email is taken
\* (no test of the lookup's result)
EmailTakenNever(found) == FALSE
EmailTaken(found) == found # {}

\* the column users.email is unique: the INSERT of a second row with an email
\* fails
\* (a column without the constraint)
UniqueEmailNotEnforced(email) == TRUE
UniqueEmailHolds(email) == SelectByEmail(email) = {}

\* a POST /register arrives: the fields are checked and the SELECT is sent
PostRegister(r) ==
    /\ MayArrive(r)
    /\ \E b \in RegisterBodies :
          LET q == [FreshReq EXCEPT !.kind = "POST /register", !.at = now, !.body = b,
                                    !.nusers = Len(users)]
          IN  req' = [req EXCEPT ![r] =
                  IF b.name = "" \/ b.email = "" \/ b.password = ""
                  THEN [q EXCEPT !.pc = "done", !.resp = <<AuthRequired>>]
                  ELSE [q EXCEPT !.pc = "check"]]
    /\ UNCHANGED <<now, users, schedule_items, user_streaks, tx, held, released,
                   jar, commits>>

\* the SELECT of the email settles; bcrypt.hash and the INSERT follow unless
\* the email is taken
RegisterCheck(r) ==
    /\ req[r].kind = "POST /register" /\ req[r].pc = "check"
    /\ \/ req' = [req EXCEPT ![r] =
                     IF EmailTaken(SelectByEmail(req[r].body.email))
                     THEN [Step(@, "SELECT", "done") EXCEPT !.resp = <<AuthExists>>]
                     ELSE Step(@, "SELECT", "insert")]
       \/ req' = [req EXCEPT ![r] =
                     [Step(@, "SELECT", "done") EXCEPT !.failed = "SELECT",
                                                       !.resp = <<AuthInternal>>]]
    /\ UNCHANGED <<now, users, schedule_items, user_streaks, tx, held, released,
                   jar, commits>>

\* INSERT INTO users ... RETURNING id, name settles; the token is signed and
\* set as the cookie
RegisterInsert(r) ==
    /\ req[r].kind = "POST /register" /\ req[r].pc = "insert"
    /\ LET b == req[r].body
           id == Len(users) + 1
           token == jwtSign(id, b.name, now)
       IN  \/ /\ UniqueEmailHolds(b.email)
              /\ users' = Append(users, [name |-> b.name, email |-> b.email,
                                         password |-> bcryptHash(b.password),
                                         daily_focus_hours |-> NULL])
              /\ jar' = jar \cup {token}
              /\ req' = [req EXCEPT ![r] =
                            [Step(@, "INSERT", "done") EXCEPT
                                 !.newUser = id, !.setCookie = token,
                                 !.resp = <<RedirectForm>>]]
           \/ /\ users' = users /\ jar' = jar
              /\ req' = [req EXCEPT ![r] =
                            [Step(@, "INSERT", "done") EXCEPT !.failed = "INSERT",
                                                              !.resp = <<AuthInternal>>]]
    /\ UNCHANGED <<now, schedule_items, user_streaks, tx, held, released, commits>>

\* a POST /login arrives: the fields are checked and the SELECT is sent
PostLogin(r) ==
    /\ MayArrive(r)
    /\ \E b \in LoginBodies :
          LET q == [FreshReq EXCEPT !.kind = "POST /login", !.at = now, !.body = b,
                                    !.nusers = Len(users)]
          IN  req' = [req EXCEPT ![r] =
                  IF b.email = "" \/ b.password = ""
                  THEN [q EXCEPT !.pc = "done", !.resp = <<AuthLoginRequired>>]
                  ELSE [q EXCEPT !.pc = "find"]]
    /\ UNCHANGED <<now, users, schedule_items, user_streaks, tx, held, released,
                   jar, commits>>

\* the SELECT of the email settles; bcrypt.compare, the token and the cookie
\* follow
LoginFind(r) ==
    /\ req[r].kind = "POST /login" /\ req[r].pc = "find"
    /\ LET b == req[r].body
           found == SelectByEmail(b.email)
           id == CHOOSE i \in found : \A j \in found : i <= j
           token == jwtSign(id, users[id].name, now)
       IN  \/ /\ found = {}
              /\ jar' = jar
              /\ req' = [req EXCEPT ![r] =
                            [Step(@, "SELECT", "done") EXCEPT !.resp = <<AuthNotFound>>]]
           \/ /\ found # {} /\ ~bcryptCompare(b.password, users[id].password)
              /\ jar' = jar
              /\ req' = [req EXCEPT ![r] =
                            [Step(@, "SELECT", "done") EXCEPT !.resp = <<AuthIncorrect>>]]
           \/ /\ found # {} /\ bcryptCompare(b.password, users[id].password)
              /\ jar' = jar \cup {token}
              /\ req' = [req EXCEPT ![r] =
                            [Step(@, "SELECT", "done") EXCEPT
                                 !.setCookie = token, !.resp = <<RedirectDashboard>>]]
           \/ /\ jar' = jar
              /\ req' = [req EXCEPT ![r] =
                            [Step(@, "SELECT", "done") EXCEPT !.failed = "SELECT",
                                                              !.resp = <<AuthInternal>>]]
    /\ UNCHANGED <<now, users, schedule_items, user_streaks, tx, held, released, commits>>

(* --------------------------- specifications ---------------------------- *)

FormStepAfterGenerate(r) ==
    \/ FormBegin(r) \/ FormDelete(r) \/ FormDeleteResume(r) \/ FormInsert(r)
    \/ FormUpdate(r) \/ FormCommit(r) \/ FormRollback(r)

DashStep(r) == DashUser(r) \/ DashSchedule(r) \/ DashStreak(r)

\* the schedule flow: one POST /form request and dashboard readers (a DELETE
\* never waits for a lock when one request writes)
NextForm ==
    \/ PostFormFirst
    \/ \E r \in Reqs :
        \/ GetDashboard(r)
        \/ FormConnect(r) \/ FormGenerate(r) \/ FormBegin(r) \/ FormDelete(r)
        \/ FormInsert(r) \/ FormUpdate(r) \/ FormCommit(r) \/ FormRollback(r)
        \/ DashStep(r)

SpecForm == Init /\ [][NextForm]_vars

\* one POST /form request by itself, whatever the generator answers
NextFlow ==
    \/ PostFormFirst
    \/ \E r \in Reqs :
        \/ FormConnect(r) \/ FormGenerate(r) \/ FormBegin(r) \/ FormDelete(r)
        \/ FormInsert(r) \/ FormUpdate(r) \/ FormCommit(r) \/ FormRollback(r)

SpecFlow == Init /\ [][NextFlow]_vars

\* racing POST /form requests, each given a well-formed array
NextRace ==
    \E r \in Reqs :
        \/ PostForm(r)
        \/ FormConnect(r) \/ FormGenerateArray(r) \/ FormStepAfterGenerate(r)

SpecRace == Init /\ [][NextRace]_vars

\* the session routes while the clock runs: NSession requests, the first of
\* them a POST /form or not, the others for the two GET routes
NextSession ==
    \/ Tick
    \/ PostFormFirst
    \/ \E r \in Reqs :
        \/ r <= NSession /\ GetForm(r)
        \/ r <= NSession /\ GetDashboard(r)
        \/ FormConnect(r) \/ FormGenerateOne(r) \/ FormBegin(r) \/ FormDelete(r)
        \/ FormInsert(r) \/ FormUpdate(r) \/ FormCommit(r) \/ FormRollback(r)
        \/ DashStep(r)

SpecSession == Init /\ [][NextSession]_vars

\* registration and login while the clock runs
NextAuth ==
    \/ Tick
    \/ \E r \in Reqs :
        \/ PostRegister(r) \/ RegisterCheck(r) \/ RegisterInsert(r)
        \/ PostLogin(r) \/ LoginFind(r)

SpecAuth == Init /\ [][NextAuth]_vars

\* the values of day_of_week: the seven names of the CASE and the NULL an
\* entry without dayOfWeek is stored with
DayValues == {"Monday", "Tuesday", "Wednesday", "Thursday", "Friday", "Saturday",
              "Sunday", "NULL"}
StartValues == {"09:00", "14:00"}

\* the rows user 2 may have
DashRows ==
    { Row(2, [dayOfWeek |-> d, startTime |-> t, endTime |-> "15:00",
              subject |-> "Math"], 0) : d \in DayValues, t \in StartValues }

\* a live token of a user whose row is no longer in the table
GhostToken == jwtSign(Len(InitUsers) + 1, "cy", 0)

\* the dashboard over any schedule of user 2: up to MaxRows rows in any
\* order of insertion
InitDash ==
    /\ now = 0
    /\ users = InitUsers
    /\ schedule_items \in
          { InitItems \o rows : rows \in UNION { [1..n -> DashRows] : n \in 0..MaxRows } }
    /\ user_streaks = { [user_id |-> 1, streak_count |-> 3, longest_streak |-> 5] }
    /\ tx = [r \in Reqs |-> NoTx]
    /\ held = {}
    /\ released = [r \in Reqs |-> 0]
    /\ req = [r \in Reqs |-> FreshReq]
    /\ jar = InitTokens \cup {GhostToken}
    /\ commits = <<>>

\* the first request of the run is a GET /dashboard
GetDashboardFirst == GetDashboard(1)

NextDash ==
    \/ GetDashboardFirst
    \/ \E r \in Reqs : DashStep(r)

SpecDash == InitDash /\ [][NextDash]_vars

\* every route
Next ==
    \/ Tick
    \/ \E r \in Reqs :
        \/ PostForm(r) \/ GetForm(r) \/ GetDashboard(r)
        \/ FormConnect(r) \/ FormGenerate(r) \/ FormStepAfterGenerate(r)
        \/ DashStep(r)
        \/ PostRegister(r) \/ RegisterCheck(r) \/ RegisterInsert(r)
        \/ PostLogin(r) \/ LoginFind(r)

Spec == Init /\ [][Next]_vars


(* ------------------------------- claims -------------------------------- *)

\* the entries a request's generation asks to persist, in array order
Candidate(q) == Entries(q.sched.elems)

\* the schedule and focus hours of user uid before the run
InitEntries(uid) ==
    Entries(SelectRows(InitItems, {i \in DOMAIN InitItems : InitItems[i].user_id = uid}))
InitFocus(uid) == InitUsers[uid].daily_focus_hours

Committing(r) == \E i \in DOMAIN commits : commits[i] = r

\* C1: at every moment of a POST /form request of user u, what another
\* connection reads as u's schedule is the whole set committed before the
\* request or, once the request has committed, the whole set it commits, and
\* every schedule a dashboard has read is one of the two in display order.
C1_AtomicVisibility ==
    \A r \in Posts :
        req[r].user # NoUser =>
            LET u == req[r].user.id
                old == InitEntries(u)
                new == Candidate(req[r])
            IN  /\ Entries(CommittedItems(u)) = IF Committing(r) THEN new ELSE old
                /\ \A d \in Reqs :
                      (/\ req[d].kind = "GET /dashboard"
                       /\ req[d].user = req[r].user
                       /\ "schedule" \in req[d].got)
                      => \/ req[d].scheduleRows = OrderBy(old)
                         \/ Committing(r) /\ req[d].scheduleRows = OrderBy(new)

\* C1 witness: a transaction has deleted the old rows and inserted a new one,
\* none of it committed, while a dashboard of the same user has its schedule
\* query still to run
C1_Witness ==
    \E r \in Posts, d \in Reqs :
        /\ InTx(r) /\ req[r].pc = "commit" /\ req[r].idx >= 1
        /\ \E i \in DOMAIN schedule_items : schedule_items[i].xmax = r
        /\ \E i \in DOMAIN schedule_items : schedule_items[i].xmin = r
        /\ req[d].kind = "GET /dashboard" /\ req[d].pc = "queries"
        /\ req[d].user = req[r].user /\ "schedule" \notin req[d].got

\* the generator answered a well-formed array of entry objects
GotEntryArray(q) ==
    /\ q.gen = "text" /\ q.sched.type = "array"
    /\ \A i \in DOMAIN q.sched.elems : q.sched.elems[i].kind = "obj"

\* C2: when the generator answers an array of N entries and no statement
\* fails, the request commits and is redirected, and from then on the user's
\* rows are the N entries in array order, duplicates kept, nothing older, and
\* the focus hours are the submitted dailytime.
C2_ReplacesSchedule ==
    \A r \in Posts :
        (/\ req[r].pc = "done" /\ GotEntryArray(req[r]) /\ req[r].failed = "none")
        => LET u == req[r].user.id
               rows == Entries(CommittedItems(u))
           IN  /\ Committing(r)
               /\ req[r].resp = <<RedirectDashboard>>
               /\ Len(rows) = Len(req[r].sched.elems)
               /\ rows = Candidate(req[r])
               /\ \A i \in DOMAIN schedule_items :
                     schedule_items[i].user_id = u => schedule_items[i].xmin = 0
               /\ users[u].daily_focus_hours = pgFloat(req[r].body.dailytime)

\* C2 witness: a committed array with a duplicate entry replaced an older schedule
C2_Witness ==
    \E r \in Posts :
        /\ req[r].pc = "done" /\ GotEntryArray(req[r]) /\ req[r].failed = "none"
        /\ Candidate(req[r]) = Entries(<<E1, E1>>)
        /\ InitEntries(req[r].user.id) # <<>>
        /\ Entries(CommittedItems(req[r].user.id)) = Entries(<<E1, E1>>)

\* C3 (as claimed): when the DELETE, an INSERT or the UPDATE fails, the user's
\* rows and focus hours are as before the request and the request is
\* answered with the server error.
C3_AsClaimed ==
    \A r \in Posts :
        (req[r].pc = "done" /\ req[r].failed \in {"DELETE", "INSERT", "UPDATE"})
        => LET u == req[r].user.id
           IN  /\ Entries(CommittedItems(u)) = InitEntries(u)
               /\ users[u].daily_focus_hours = InitFocus(u)
               /\ req[r].resp = <<ScheduleError>>

\* C4 (as claimed): when the stripped response is not JSON or is JSON that is
\* no array, the request does not commit and is not redirected, and the
\* user's rows and focus hours are as before the request.
C4_AsClaimed ==
    \A r \in Posts :
        (/\ req[r].pc = "done" /\ req[r].gen = "text"
         /\ LET v == JSONparse(StripFences(req[r].text))
            IN  ~v.ok \/ v.type # "array")
        => LET u == req[r].user.id
           IN  /\ ~Committing(r)
               /\ RedirectDashboard \notin {req[r].resp[i] : i \in DOMAIN req[r].resp}
               /\ Entries(CommittedItems(u)) = InitEntries(u)
               /\ users[u].daily_focus_hours = InitFocus(u)

\* the request got a client from the pool
CheckedOut(q) ==
    /\ \E i \in DOMAIN q.log : q.log[i] = "connect"
    /\ q.failed # "connect"

\* C6: a request that got a client holds it, unreleased, until it ends, and
\* has released it exactly once when it has ended, whatever the way out; a
\* request that got none releases nothing; so when every request has ended
\* no client is checked out.
C6_ReleasedOnce ==
    /\ \A r \in Reqs :
          /\ (CheckedOut(req[r]) /\ req[r].pc # "done") => (r \in held /\ released[r] = 0)
          /\ (CheckedOut(req[r]) /\ req[r].pc = "done") => (r \notin held /\ released[r] = 1)
          /\ ~CheckedOut(req[r]) => (r \notin held /\ released[r] = 0)
    /\ (\A r \in Reqs : req[r].pc \in {"idle", "done"}) => held = {}

\* C6 witness: a request whose ROLLBACK failed has released its client once
C6_Witness ==
    \E r \in Posts :
        /\ req[r].pc = "done" /\ req[r].rollbackFailed
        /\ released[r] = 1 /\ r \notin held

\* C7 (as claimed): an authenticated POST /form that has ended has sent one
\* response: the redirect to /dashboard when it committed, the fixed server
\* error when it did not.
C7_AsClaimed ==
    \A r \in Posts :
        (req[r].pc = "done" /\ req[r].user # NoUser)
        => /\ Len(req[r].resp) = 1
           /\ req[r].resp[1] = IF Committing(r) THEN RedirectDashboard ELSE ScheduleError

\* every row version of user uid, committed or not
RowsOf(uid) ==
    SelectRows(schedule_items,
               {i \in DOMAIN schedule_items : schedule_items[i].user_id = uid})

\* C10: a step of a POST /form request whose token names user u leaves the
\* schedule rows and the users row of every other user as they were, whatever
\* user_id its body carries.
C10_OnlyOwnData ==
    [][ \A r \in Reqs :
          (req[r].kind = "POST /form" /\ req'[r] # req[r])
          => \A v \in UserIds \ {req[r].user.id} :
                /\ RowsOf(v)' = RowsOf(v)
                /\ users'[v] = users[v] ]_vars

\* C10 witness: a request whose body names another user has committed new
\* rows and focus hours for the user of its token
C10_Witness ==
    \E r \in Posts :
        /\ req[r].pc = "done" /\ Committing(r)
        /\ req[r].body.user_id # req[r].user.id
        /\ Len(CommittedItems(req[r].user.id)) = 2
        /\ users[req[r].user.id].daily_focus_hours # InitFocus(req[r].user.id)


\* the request of user uid that committed last
LastCommit(uid) ==
    LET mine == {i \in DOMAIN commits : req[commits[i]].user.id = uid}
    IN  commits[CHOOSE i \in mine : \A j \in mine : j <= i]

\* C5 (as claimed): once two POST /form requests of one user have both
\* committed and every request has ended, the user's rows are the candidate
\* list of the one that committed last and the focus hours are its dailytime.
C5_AsClaimed ==
    \A r1 \in Posts : \A r2 \in Posts \ {r1} :
        (/\ \A r \in Reqs : req[r].pc \in {"idle", "done"}
         /\ Committing(r1) /\ Committing(r2)
         /\ req[r1].user = req[r2].user)
        => LET u == req[r1].user.id
               last == req[LastCommit(u)]
           IN  /\ Entries(CommittedItems(u)) = Candidate(last)
               /\ users[u].daily_focus_hours = pgFloat(last.body.dailytime)

\* the token of a request was signed with the secret and was not past its
\* expiry, a day after it was issued, when the request arrived
LiveToken(q) == q.cookie.key = JWT_SECRET /\ q.at < q.cookie.exp

\* the handler of a session route has run, or is running
HandlerRan(q) ==
    \/ q.pc \notin {"idle", "done"}
    \/ q.log # <<>> \/ q.got # {} \/ q.failed # "none" \/ q.user # NoUser
    \/ \E i \in DOMAIN q.resp : q.resp[i] # RedirectLogin

\* C9: on the session routes the handler runs only for a request whose token
\* is live; a request without a live token has ended with the redirect to
\* '/' and nothing else, has its cookie cleared exactly when it carried a
\* token, and has issued no statement, got no client and opened no transaction.
C9_SessionRequired ==
    \A r \in Reqs :
        req[r].kind \in SessionRoutes =>
            /\ HandlerRan(req[r]) => LiveToken(req[r])
            /\ LiveToken(req[r]) =>
                  req[r].user = [id |-> req[r].cookie.id, name |-> req[r].cookie.name]
            /\ ~LiveToken(req[r]) =>
                  /\ req[r].pc = "done" /\ req[r].resp = <<RedirectLogin>>
                  /\ req[r].cleared = (req[r].cookie # NoToken)
                  /\ req[r].setCookie = NoToken
                  /\ r \notin held /\ released[r] = 0 /\ tx[r] = NoTx
                  /\ ~Committing(r)
                  /\ \A i \in DOMAIN schedule_items :
                        /\ schedule_items[i].xmin # r /\ schedule_items[i].xmax # r
                        /\ r \notin schedule_items[i].want

\* C9 witness: a token that was live when the run began is presented a day
\* after it was issued and is turned away, its cookie cleared
C9_Witness ==
    \E r \in Reqs :
        /\ req[r].kind = "POST /form"
        /\ req[r].cookie.key = JWT_SECRET /\ req[r].cookie.exp = ExpiresIn
        /\ req[r].at = req[r].cookie.exp
        /\ req[r].pc = "done" /\ req[r].resp = <<RedirectLogin>> /\ req[r].cleared


\* the email of a registration was in the users table when it arrived
EmailPresentOnArrival(q) ==
    \E i \in 1..q.nusers : users[i].email = q.body.email

\* what C8 says of a registration with a taken email, but for the response
C8_NothingCreated(r) ==
    /\ req[r].newUser = 0
    /\ req[r].setCookie = NoToken
    /\ Cardinality(SelectByEmail(req[r].body.email)) = 1
    /\ \A i \in 1..req[r].nusers : i <= Len(InitUsers) => users[i] = InitUsers[i]
    /\ \A t \in jar \ InitTokens : \E s \in Reqs \ {r} : req[s].setCookie = t

C11_AsClaimed ==
    \A r \in Posts :
        (req[r].pc = "done" /\ req[r].gen = "error")
        => LET u == req[r].user.id
           IN  /\ req[r].resp = <<ScheduleError>>
               /\ \A i \in DOMAIN req[r].log : req[r].log[i] # "BEGIN"
               /\ ~Committing(r)
               /\ Entries(CommittedItems(u)) = InitEntries(u)
               /\ users[u].daily_focus_hours = InitFocus(u)


\* the place of a statement in the flow of POST /form
StepRank(stmt) ==
    CASE stmt = "connect" -> 0 [] stmt = "generate" -> 1 [] stmt = "BEGIN" -> 2
      [] stmt = "DELETE" -> 3 [] stmt = "INSERT" -> 4 [] stmt = "UPDATE" -> 5
      [] stmt = "COMMIT" -> 6 [] stmt = "ROLLBACK" -> 7

\* how often stmt has settled in the request
Count(q, stmt) == Cardinality({i \in DOMAIN q.log : q.log[i] = stmt})

\* C12: the statements of a POST /form request that got its client settle
\* in the order generate, BEGIN, DELETE, INSERTs, UPDATE, COMMIT, none twice
\* but the INSERT: BEGIN is sent only when the response was generated and
\* parsed, each later statement only when the one before it is done, the
\* UPDATE only when every item has been inserted, ROLLBACK comes last, and a
\* response is sent only when COMMIT or ROLLBACK has settled as the last
\* statement, the redirect only after COMMIT.
C12_FixedOrder ==
    \A r \in Posts :
        CheckedOut(req[r]) =>
            LET q == req[r]
                n == Len(q.log)
            IN  /\ \A i \in 1..n : \A j \in (i + 1)..n :
                      \/ StepRank(q.log[i]) < StepRank(q.log[j])
                      \/ q.log[i] = "INSERT" /\ q.log[j] = "INSERT"
                /\ Count(q, "BEGIN") = 1 =>
                      /\ Count(q, "generate") = 1 /\ q.gen = "text"
                      /\ Parsed(q.text).ok /\ q.sched.elems = Parsed(q.text).elems
                /\ Count(q, "DELETE") = 1 => Count(q, "BEGIN") = 1
                /\ Count(q, "INSERT") > 0 => Count(q, "DELETE") = 1
                /\ Count(q, "INSERT") = q.idx + (IF q.failed = "INSERT" THEN 1 ELSE 0)
                /\ Count(q, "UPDATE") = 1 =>
                      /\ Count(q, "DELETE") = 1
                      /\ Count(q, "INSERT") = Len(q.sched.elems) /\ q.failed # "INSERT"
                /\ Count(q, "COMMIT") = 1 => Count(q, "UPDATE") = 1
                /\ q.resp # <<>> => n > 0 /\ q.log[n] \in {"COMMIT", "ROLLBACK"}
                /\ (\E i \in DOMAIN q.resp : q.resp[i] = RedirectDashboard)
                      => q.log[n] = "COMMIT" /\ Committing(r)
                /\ (\E i \in DOMAIN q.resp : q.resp[i] = ScheduleError)
                      => q.log[n] = "ROLLBACK"

\* C12 witness: a request has inserted two items and then failed in its
\* COMMIT, was rolled back and answered with the server error
C12_Witness ==
    \E r \in Posts :
        /\ req[r].pc = "done" /\ req[r].resp = <<ScheduleError>>
        /\ req[r].log = <<"connect", "generate", "BEGIN", "DELETE", "INSERT", "INSERT",
                          "UPDATE", "COMMIT", "ROLLBACK">>


Registrations == {r \in Reqs : req[r].kind = "POST /register"}

\* C13: whatever the interleaving of registrations, no two users rows have
\* one email, a registration is issued a token exactly when it created a row,
\* the token names that row, and of two registrations with the same email at
\* most one creates a row and is issued a token.
C13_OneRowPerEmail ==
    /\ \A i \in UserIds : \A j \in UserIds : users[i].email = users[j].email => i = j
    /\ \A r \in Registrations :
          /\ (req[r].setCookie # NoToken) = (req[r].newUser # 0)
          /\ req[r].newUser # 0 =>
                /\ req[r].newUser \in UserIds
                /\ users[req[r].newUser].email = req[r].body.email
                /\ req[r].setCookie.id = req[r].newUser
    /\ \A r1 \in Registrations : \A r2 \in Registrations \ {r1} :
          req[r1].body.email = req[r2].body.email
          => (req[r1].newUser = 0 \/ req[r2].newUser = 0)

\* C13 witness: two registrations of one new email have both found it free,
\* the INSERT of one created the row and the INSERT of the other was refused
C13_Witness ==
    \E r1 \in Registrations : \E r2 \in Registrations \ {r1} :
        /\ req[r1].body.email = "cy@x" /\ req[r2].body.email = "cy@x"
        /\ req[r1].log = <<"SELECT", "INSERT">> /\ req[r2].log = <<"SELECT", "INSERT">>
        /\ req[r1].failed = "none" /\ req[r1].newUser = Len(InitUsers) + 1
        /\ req[r1].resp = <<RedirectForm>>
        /\ req[r2].failed = "INSERT" /\ req[r2].resp = <<AuthInternal>>
        /\ Cardinality(SelectByEmail("cy@x")) = 1


\* the focus hours as the dashboard displays them
Shown(hours) == IF hours \in {NULL, 0} THEN NULL ELSE hours

\* C14 (as claimed): the schedule and the focus hours of a rendered dashboard
\* of user u are both the ones from before the run or both the ones written
\* by one committed POST /form of u.
C14_AsClaimed ==
    \A d \in Reqs :
        (req[d].kind = "GET /dashboard" /\ req[d].view # <<>>)
        => LET u == req[d].user.id
               v == req[d].view[1]
           IN  \/ /\ v.scheduleItems = OrderBy(InitEntries(u))
                  /\ v.focusedTime = Shown(InitFocus(u))
               \/ \E r \in Posts :
                     /\ req[r].user.id = u /\ Committing(r)
                     /\ v.scheduleItems = OrderBy(Candidate(req[r]))
                     /\ v.focusedTime = Shown(pgFloat(req[r].body.dailytime))


\* the step in which the POST /login request r is answered
LoginAnswered(r) ==
    /\ req'[r].kind = "POST /login" /\ req'[r].pc = "done" /\ req[r].pc # "done"

\* the users rows with the email of login r when its answer is made
LoginMatches(r) == {i \in UserIds : users[i].email = req'[r].body.email}

\* no row matches the password of login r
LoginMismatch(r) ==
    \A i \in LoginMatches(r) : users[i].password # bcryptHash(req'[r].body.password)

\* login r is answered with the redirect to /dashboard and a cookie whose
\* token is signed now and carries the id and name of a matching row
LoginIssues(r) ==
    /\ req'[r].resp = <<RedirectDashboard>>
    /\ \E i \in LoginMatches(r) :
          req'[r].setCookie =
              [id |-> i, name |-> users[i].name, exp |-> now + ExpiresIn,
               key |-> JWT_SECRET]
    /\ jar' = jar \cup {req'[r].setCookie}

\* login r is answered with a page of auth.ejs and no cookie
LoginRefused(r, page) ==
    /\ req'[r].resp = <<page>>
    /\ req'[r].setCookie = NoToken
    /\ jar' = jar

LoginChangesNothing ==
    /\ users' = users /\ schedule_items' = schedule_items
    /\ user_streaks' = user_streaks /\ commits' = commits

\* C15 (as claimed): a login with an email and a password is answered with
\* not-found when no user has the email, with invalid-credentials when a user
\* has it and the password does not match, and otherwise with a token of the
\* matching user; a refused login issues no cookie; no login changes stored
\* state.
C15_AsClaimed ==
    [][ \A r \in Reqs :
          (/\ LoginAnswered(r)
           /\ req'[r].body.email # "" /\ req'[r].body.password # "")
          => /\ LoginChangesNothing
             /\ IF LoginMatches(r) = {} THEN LoginRefused(r, AuthNotFound)
                ELSE IF LoginMismatch(r) THEN LoginRefused(r, AuthIncorrect)
                ELSE LoginIssues(r) ]_vars

\* C15 (amended): the same when the lookup of the email succeeds; when the
\* lookup fails the login is answered with the internal-error page, and a
\* login with a field missing with the fields-required page, both without a
\* cookie; a login not yet answered has issued none.
C15_LoginOutcome ==
    [][ \A r \in Reqs :
          /\ LoginAnswered(r)
             => /\ LoginChangesNothing
                /\ IF req'[r].body.email = "" \/ req'[r].body.password = ""
                   THEN LoginRefused(r, AuthLoginRequired)
                   ELSE IF req'[r].failed = "SELECT" THEN LoginRefused(r, AuthInternal)
                   ELSE IF LoginMatches(r) = {} THEN LoginRefused(r, AuthNotFound)
                   ELSE IF LoginMismatch(r) THEN LoginRefused(r, AuthIncorrect)
                   ELSE LoginIssues(r)
          /\ (req'[r].kind = "POST /login" /\ req'[r].pc # "done")
             => req'[r].setCookie = NoToken /\ req'[r].resp = <<>> ]_vars

\* C15 witness: a login with a wrong password was refused and a login of the
\* same user with the right one was issued that user's token
C15_Witness ==
    \E r \in Reqs : \E s \in Reqs :
        /\ req[r].kind = "POST /login" /\ req[r].body.email = "ann@x"
        /\ req[r].body.password = "pw3"
        /\ req[r].resp = <<AuthIncorrect>> /\ req[r].setCookie = NoToken
        /\ req[s].kind = "POST /login" /\ req[s].body.email = "ann@x"
        /\ req[s].resp = <<RedirectDashboard>>
        /\ req[s].setCookie.id = 1 /\ req[s].setCookie.name = "ann"


\* Monday first
Week == <<"Monday", "Tuesday", "Wednesday", "Thursday", "Friday", "Saturday", "Sunday">>
DayOfWeek(d) == CHOOSE k \in DOMAIN Week : Week[k] = d
NamedDay(d) == \E k \in DOMAIN Week : Week[k] = d
\* the start times, earliest first
Clock == <<"09:00", "11:00", "14:00", "15:00">>
StartOf(t) == CHOOSE k \in DOMAIN Clock : Clock[k] = t

\* how often entry e is in the sequence s
Times(s, e) == Cardinality({i \in DOMAIN s : s[i] = e})

\* C16: the schedule a dashboard of user u has read, and renders, holds
\* exactly the rows of u, each as often as the table does, and of any two of
\* them with a day name the one listed first has the earlier day of the week
\* Monday to Sunday or, on one day, a start time that is not later.
C16_SortedByDayThenStart ==
    \A d \in Reqs :
        (req[d].kind = "GET /dashboard" /\ "schedule" \in req[d].got)
        => LET rows == req[d].scheduleRows
               mine == Entries(CommittedItems(req[d].user.id))
           IN  /\ Len(rows) = Len(mine)
               /\ \A i \in DOMAIN mine : Times(rows, mine[i]) = Times(mine, mine[i])
               /\ \A i \in DOMAIN rows : \A j \in DOMAIN rows :
                     (i < j /\ NamedDay(rows[i].dayOfWeek) /\ NamedDay(rows[j].dayOfWeek))
                     => \/ DayOfWeek(rows[i].dayOfWeek) < DayOfWeek(rows[j].dayOfWeek)
                        \/ /\ rows[i].dayOfWeek = rows[j].dayOfWeek
                           /\ StartOf(rows[i].startTime) <= StartOf(rows[j].startTime)
               /\ req[d].view # <<>> => req[d].view[1].scheduleItems = rows

\* C16 witness: a dashboard is rendered with two rows of one day, the one
\* inserted last listed first, while a row of another user is left out
C16_Witness ==
    \E d \in Reqs :
        /\ req[d].kind = "GET /dashboard" /\ req[d].view # <<>>
        /\ LET rows == req[d].view[1].scheduleItems
               mine == Entries(CommittedItems(req[d].user.id))
           IN  /\ Len(rows) = 2 /\ Len(schedule_items) = 3
               /\ rows[1].dayOfWeek = "Sunday" /\ rows[2].dayOfWeek = "Sunday"
               /\ rows[1].startTime = "09:00" /\ rows[2].startTime = "14:00"
               /\ rows[1] = mine[2] /\ rows[2] = mine[1]


\* the handler of GET /dashboard takes a step for request d
DashActs(d) == req'[d].kind = "GET /dashboard" /\ req'[d] # req[d]

StoredUnchanged ==
    /\ users' = users /\ schedule_items' = schedule_items
    /\ user_streaks' = user_streaks /\ commits' = commits /\ tx' = tx

HasStreak(uid) == \E k \in user_streaks : k.user_id = uid

\* nothing is rendered to request d
NothingRendered(q) ==
    /\ q.view = <<>>
    /\ \A i \in DOMAIN q.resp : q.resp[i] # RenderDashboard

\* C17 (as claimed), of request q: without a users row of the token's id the
\* request ends redirected to '/' with nothing rendered; with a users row
\* and no streak row it ends rendered with both streaks 0.
C17_ClaimedOf(q) ==
    /\ q.user.id \notin UserIds =>
          /\ NothingRendered(q)
          /\ q.pc = "done" => q.resp = <<RedirectLogin>>
    /\ (q.user.id \in UserIds /\ ~HasStreak(q.user.id) /\ q.pc = "done") =>
          /\ q.resp = <<RenderDashboard>> /\ q.view # <<>>
          /\ q.view[1].streak_count = 0 /\ q.view[1].longest_streak = 0

\* C17 (as claimed): every step of a GET /dashboard handler leaves the stored
\* state as it is and the request as C17_ClaimedOf says.
C17_AsClaimed ==
    [][ \A d \in Reqs : DashActs(d) => StoredUnchanged /\ C17_ClaimedOf(req[d])' ]_vars

\* C17 (amended), of request q: the same when the three queries succeed; when
\* one of them fails the request ends with the dashboard error and nothing is
\* rendered.  What is rendered is the name of the token's users row and the
\* values of its streak row when it has one.
C17_AmendedOf(q) ==
    /\ q.user.id \notin UserIds =>
          /\ NothingRendered(q)
          /\ q.pc = "done" =>
                q.resp = IF q.failed = "none" THEN <<RedirectLogin>> ELSE <<DashboardError>>
    /\ (q.user.id \in UserIds /\ q.pc = "done") =>
          IF q.failed # "none"
          THEN q.resp = <<DashboardError>> /\ NothingRendered(q)
          ELSE /\ q.resp = <<RenderDashboard>> /\ Len(q.view) = 1
               /\ q.view[1].name = users[q.user.id].name
               /\ IF HasStreak(q.user.id)
                  THEN \E k \in user_streaks :
                          /\ k.user_id = q.user.id
                          /\ q.view[1].streak_count = k.streak_count
                          /\ q.view[1].longest_streak = k.longest_streak
                  ELSE q.view[1].streak_count = 0 /\ q.view[1].longest_streak = 0
    /\ q.pc # "done" => q.resp = <<>> /\ q.view = <<>>

\* C17 (amended): every step of a GET /dashboard handler leaves the stored
\* state as it is and the request as C17_AmendedOf says.
C17_NoGhostDashboard ==
    [][ \A d \in Reqs : DashActs(d) => StoredUnchanged /\ C17_AmendedOf(req[d])' ]_vars

\* C17 witness: the three queries of a request whose token names a user
\* without a row have succeeded and the request is redirected to '/'
C17_Witness ==
    \E d \in Reqs :
        /\ req[d].kind = "GET /dashboard" /\ req[d].cookie = GhostToken
        /\ req[d].user.id \notin UserIds
        /\ req[d].got = DashQueries /\ req[d].failed = "none"
        /\ req[d].pc = "done" /\ req[d].resp = <<RedirectLogin>> /\ req[d].view = <<>>

\* a dashboard of a user without a streak row is rendered with both streaks 0
StreakDefaultReached ==
    \E d \in Reqs :
        /\ req[d].kind = "GET /dashboard" /\ req[d].user.id = 2
        /\ req[d].view # <<>>
        /\ req[d].view[1].streak_count = 0 /\ req[d].view[1].longest_streak = 0

====
